---- MODULE Spec2Model ----
(***************************************************************************)
(* State-machine model of the storage core of rustdb:                      *)
(*   - LrukReplacer   (src/handin/lru_k_replacer.rs)                       *)
(*   - TablePage      (src/crates/storage/src/page/table_page.rs)          *)
(*   - TableTupleIterator (src/handin/table_tuple_iterator.rs)             *)
(*   - LruReplacer    (src/crates/storage/src/replacer/lru_replacer.rs)    *)
(* Each component has its own specification; the variables of the other    *)
(* components stay at their initial values.                                *)
(***************************************************************************)
EXTENDS Integers, Sequences, FiniteSets, TLC

VARIABLES
    \* ---- LrukReplacer (lru_k_replacer.rs:60-65)
    node_store,         \* HashMap<FrameId, LrukNode>: a function on the known frames
    evictable_size,     \* usize
    current_timestamp,  \* u64
    k,                  \* usize, fixed by LrukReplacer::new
    \* ---- observation of the last Replacer call
    r_op,               \* [name, arg] of the last call
    r_ret,              \* its return value
    r_pre,              \* the replacer state the call started from
    accesses,           \* per known frame: every access timestamp since the node was created
    unpinned,           \* known frames on which unpin was called since the node was created
    dropped,            \* frames whose node evict or remove has dropped at some time
    \* ---- TablePage (table_page.rs:67-69): a view over one page frame
    page_data,          \* the frame's bytes, data()[0..PAGE_SIZE)
    page_id,            \* the frame's page id
    overflow_checks,    \* build profile: arithmetic overflow panics (debug) or wraps (release)
    \* ---- observation of the last TablePage call
    p_op,               \* [name, rid, meta, tuple, next] of the last call
    p_ret,              \* its return value
    p_pre,              \* the frame's bytes the call started from
    p_all_fit,          \* every insert_tuple so far left its payload above the slot directory
    p_rids,             \* the RecordIds the successful insert_tuple calls returned, in order
    \* ---- the table a TableTupleIterator scans (table_tuple_iterator.rs:107-130)
    table_heap,         \* [first_page_id, chain, tuples]: the heap's page chain and what was
                        \* inserted into each page, in insertion order
    pages,              \* page id -> the bytes of that page, as the buffer pool serves them
    heap_readers,       \* RwLock<TableHeap>: the number of read guards alive
    heap_writer,        \* RwLock<TableHeap>: a write guard is alive
    \* ---- TableTupleIterator (table_tuple_iterator.rs:18-22)
    it_state,           \* "none" before TableTupleIterator::new, "live" after
    current_page_id,    \* PageId
    current_slot,       \* u32
    \* ---- observation of the last TableTupleIterator call
    i_op,               \* its name
    i_ret,              \* its return value
    i_pre,              \* [current_page_id, current_slot, ret, failed] before the call
    i_fetched,          \* the page ids the call asked the buffer pool for, in order
    i_failed,           \* the page ids whose fetch failed in the call
    i_pins,             \* the pages the iterator still holds a handle to after the call
    i_max_pins,         \* the largest number of handles the call held at one time
    yielded,            \* the Ok items returned before the first end-of-iteration
    ended,              \* next has returned end-of-iteration
    fetch_failed,       \* some fetch of some next call has failed
    \* ---- LruReplacer (lru_replacer.rs:14-18)
    l_node_store,       \* HashMap<FrameId, LruNode>
    l_evictable_count,  \* usize
    l_current_timestamp,\* u64
    \* ---- observation of the LruReplacer calls
    l_calls,            \* the calls made so far: [name, arg, ret], in order
    l_ret               \* the return value of the last call

r_vars == <<node_store, evictable_size, current_timestamp, k,
            r_op, r_ret, r_pre, accesses, unpinned, dropped>>

p_vars == <<page_data, page_id, overflow_checks, p_op, p_ret, p_pre, p_all_fit, p_rids>>

i_vars == <<table_heap, pages, heap_readers, heap_writer, it_state, current_page_id,
            current_slot, i_op, i_ret, i_pre, i_fetched, i_failed, i_pins, i_max_pins,
            yielded, ended, fetch_failed>>

l_vars == <<l_node_store, l_evictable_count, l_current_timestamp, l_calls, l_ret>>

vars == <<r_vars, p_vars, i_vars, l_vars>>

----------------------------------------------------------------------------
\* Bounds of the model
NumFrames == 3
MaxK == 2
MaxTimestamp == 4

Frames == 1..NumFrames

\* u64::MAX, the code's "+infinity" (lru_k_replacer.rs:42 and :139).  TLC integers are
\* 32-bit, so the model uses the largest TLC integer; no timestamp gets near it.
U64_MAX == 2147483647

None == [tag |-> "None"]
Some(x) == [tag |-> "Some", val |-> x]
Unit == [tag |-> "Unit"]

----------------------------------------------------------------------------
\* LrukNode

\* a mutant: a new node starts evictable
LrukNode_new_evictable(frame_id, kk) ==
    [frame_id |-> frame_id, is_evictable |-> TRUE, history |-> <<>>, k |-> kk]

\* LrukNode::new: not evictable, empty history
LrukNode_new(frame_id, kk) ==
    [frame_id |-> frame_id, is_evictable |-> FALSE, history |-> <<>>, k |-> kk]

has_inf_backward_k_dist(node) == Len(node.history) < node.k

\* history.front().unwrap()
get_earliest_timestamp(node) == Head(node.history)

get_backwards_k_distance(node, now) ==
    IF has_inf_backward_k_dist(node) THEN U64_MAX
    ELSE now - get_earliest_timestamp(node)

\* a mutant: the history keeps K+1 timestamps
insert_history_timestamp_keeps_one_more(node, ts) ==
    LET pushed == Append(node.history, ts)
    IN  [node EXCEPT !.history = IF Len(pushed) > node.k + 1 THEN Tail(pushed) ELSE pushed]

\* a mutant: recording an access also marks the node evictable
insert_history_timestamp_unpins(node, ts) ==
    LET pushed == Append(node.history, ts)
    IN  [node EXCEPT !.history = IF Len(pushed) > node.k THEN Tail(pushed) ELSE pushed,
                     !.is_evictable = TRUE]

\* push_back, then pop_front when longer than k
insert_history_timestamp(node, ts) ==
    LET pushed == Append(node.history, ts)
    IN  [node EXCEPT !.history = IF Len(pushed) > node.k THEN Tail(pushed) ELSE pushed]

----------------------------------------------------------------------------
\* LrukReplacer

Known == DOMAIN node_store

\* the replacer state a call starts from
Snapshot == [node_store |-> node_store, evictable_size |-> evictable_size,
             current_timestamp |-> current_timestamp,
             accesses |-> accesses, unpinned |-> unpinned, dropped |-> dropped]

\* LrukReplacer::new(k)
RInit ==
    /\ k \in 1..MaxK
    /\ node_store = << >>
    /\ evictable_size = 0
    /\ current_timestamp = 0
    /\ r_op = [name |-> "new", arg |-> 0]
    /\ r_ret = Unit
    /\ accesses = << >>
    /\ unpinned = {}
    /\ dropped = {}
    /\ r_pre = [node_store |-> << >>, evictable_size |-> 0, current_timestamp |-> 0,
                accesses |-> << >>, unpinned |-> {}, dropped |-> {}]

\* the map with key f bound to node n (HashMap::insert / get_mut write)
MapPut(m, f, n) == [g \in (DOMAIN m) \cup {f} |-> IF g = f THEN n ELSE m[g]]
\* a mutant: the entry stays in the map
MapDel_keeps_entry(m, f) == m

\* HashMap::remove
MapDel(m, f) == [g \in (DOMAIN m) \ {f} |-> m[g]]

\* assert!(history.is_empty() || current_timestamp > *history.back().unwrap())
history_assertion_holds(node, ts) ==
    \/ node.history = <<>>
    \/ ts > node.history[Len(node.history)]

Panic == [tag |-> "Panic"]

record_access(frame_id) ==
    /\ current_timestamp < MaxTimestamp
    /\ LET node == IF frame_id \in Known THEN node_store[frame_id]
                   ELSE LrukNode_new(frame_id, k)
           old  == IF frame_id \in Known THEN accesses[frame_id] ELSE <<>>
       IN  IF history_assertion_holds(node, current_timestamp)
           THEN /\ node_store' = MapPut(node_store, frame_id,
                                        insert_history_timestamp(node, current_timestamp))
                /\ accesses' = MapPut(accesses, frame_id, Append(old, current_timestamp))
                \* advance_timestamp
                /\ current_timestamp' = current_timestamp + 1
                /\ unpinned' = unpinned
                /\ r_ret' = Unit
           ELSE /\ r_ret' = Panic
                /\ UNCHANGED <<node_store, accesses, current_timestamp, unpinned>>
    /\ r_op' = [name |-> "record_access", arg |-> frame_id]
    /\ r_pre' = Snapshot
    /\ UNCHANGED <<evictable_size, k, dropped>>

\* a mutant: pin decrements the counter without looking at the flag
pin_unguarded(frame_id) ==
    /\ IF frame_id \notin Known
       THEN UNCHANGED <<node_store, evictable_size>>
       ELSE /\ node_store' = [node_store EXCEPT ![frame_id].is_evictable = FALSE]
            /\ evictable_size' = evictable_size - 1
    /\ r_op' = [name |-> "pin", arg |-> frame_id]
    /\ r_ret' = Unit
    /\ r_pre' = Snapshot
    /\ UNCHANGED <<current_timestamp, k, accesses, unpinned, dropped>>

pin(frame_id) ==
    /\ IF frame_id \notin Known
       THEN UNCHANGED <<node_store, evictable_size>>
       ELSE IF node_store[frame_id].is_evictable = TRUE
            THEN /\ node_store' = [node_store EXCEPT ![frame_id].is_evictable = FALSE]
                 /\ evictable_size' = evictable_size - 1
            ELSE UNCHANGED <<node_store, evictable_size>>
    /\ r_op' = [name |-> "pin", arg |-> frame_id]
    /\ r_ret' = Unit
    /\ r_pre' = Snapshot
    /\ UNCHANGED <<current_timestamp, k, accesses, unpinned, dropped>>

\* a mutant: unpin of an unknown frame creates an evictable node for it
unpin_creates_node(frame_id) ==
    /\ IF frame_id \notin Known
       THEN /\ node_store' = MapPut(node_store, frame_id,
                                    [LrukNode_new(frame_id, k) EXCEPT !.is_evictable = TRUE])
            /\ evictable_size' = evictable_size + 1
            /\ unpinned' = unpinned \cup {frame_id}
       ELSE IF ~node_store[frame_id].is_evictable
            THEN /\ node_store' = [node_store EXCEPT ![frame_id].is_evictable = TRUE]
                 /\ evictable_size' = evictable_size + 1
                 /\ unpinned' = unpinned \cup {frame_id}
            ELSE UNCHANGED <<node_store, evictable_size, unpinned>>
    /\ r_op' = [name |-> "unpin", arg |-> frame_id]
    /\ r_ret' = Unit
    /\ r_pre' = Snapshot
    /\ UNCHANGED <<current_timestamp, k, accesses, dropped>>

\* a mutant: unpin increments the counter without looking at the flag
unpin_unguarded(frame_id) ==
    /\ IF frame_id \notin Known
       THEN UNCHANGED <<node_store, evictable_size, unpinned>>
       ELSE /\ node_store' = [node_store EXCEPT ![frame_id].is_evictable = TRUE]
            /\ evictable_size' = evictable_size + 1
            /\ unpinned' = unpinned \cup {frame_id}
    /\ r_op' = [name |-> "unpin", arg |-> frame_id]
    /\ r_ret' = Unit
    /\ r_pre' = Snapshot
    /\ UNCHANGED <<current_timestamp, k, accesses, dropped>>

unpin(frame_id) ==
    /\ IF frame_id \notin Known
       THEN UNCHANGED <<node_store, evictable_size, unpinned>>
       ELSE /\ IF node_store[frame_id].is_evictable = FALSE
               THEN /\ node_store' = [node_store EXCEPT ![frame_id].is_evictable = TRUE]
                    /\ evictable_size' = evictable_size + 1
               ELSE UNCHANGED <<node_store, evictable_size>>
            /\ unpinned' = unpinned \cup {frame_id}
    /\ r_op' = [name |-> "unpin", arg |-> frame_id]
    /\ r_ret' = Unit
    /\ r_pre' = Snapshot
    /\ UNCHANGED <<current_timestamp, k, accesses, dropped>>

\* the locals of evict before its loop
EvictLocals0 == [max_frame_id |-> 0, max_k_dist |-> 0, earliest |-> U64_MAX, modded |-> FALSE]

\* a mutant: the tie-break takes the later earliest timestamp
EvictLoopBody_tie_latest(loc, store, now, frame_id) ==
    LET node == store[frame_id]
        d == get_backwards_k_distance(node, now)
        taken == [max_frame_id |-> frame_id, max_k_dist |-> d,
                  earliest |-> get_earliest_timestamp(node), modded |-> TRUE]
    IN  IF node.is_evictable = TRUE /\ d > loc.max_k_dist THEN taken
        ELSE IF node.is_evictable = TRUE /\ d = loc.max_k_dist
             THEN IF get_earliest_timestamp(node) > loc.earliest THEN taken ELSE loc
             ELSE loc

\* a mutant: the loop does not look at is_evictable
EvictLoopBody_any_frame(loc, store, now, frame_id) ==
    LET node == store[frame_id]
        d == get_backwards_k_distance(node, now)
        taken == [max_frame_id |-> frame_id, max_k_dist |-> d,
                  earliest |-> get_earliest_timestamp(node), modded |-> TRUE]
    IN  IF d > loc.max_k_dist THEN taken
        ELSE IF d = loc.max_k_dist
             THEN IF get_earliest_timestamp(node) < loc.earliest THEN taken ELSE loc
             ELSE loc

\* a mutant: among equal distances the frame met first stays
EvictLoopBody_first_wins(loc, store, now, frame_id) ==
    LET node == store[frame_id]
        d == get_backwards_k_distance(node, now)
        taken == [max_frame_id |-> frame_id, max_k_dist |-> d,
                  earliest |-> get_earliest_timestamp(node), modded |-> TRUE]
    IN  IF node.is_evictable = TRUE /\ d > loc.max_k_dist THEN taken ELSE loc

\* one iteration of the loop over node_store.iter()
EvictLoopBody(loc, store, now, frame_id) ==
    LET node == store[frame_id]
        d == get_backwards_k_distance(node, now)
        taken == [max_frame_id |-> frame_id, max_k_dist |-> d,
                  earliest |-> get_earliest_timestamp(node), modded |-> TRUE]
    IN  IF node.is_evictable = TRUE /\ d > loc.max_k_dist THEN taken
        ELSE IF node.is_evictable = TRUE /\ d = loc.max_k_dist
             THEN IF get_earliest_timestamp(node) < loc.earliest THEN taken ELSE loc
             ELSE loc

\* the loop, over the frames in the order the HashMap iterates them
RECURSIVE EvictLoop(_, _, _, _)
EvictLoop(loc, store, now, order) ==
    IF order = <<>> THEN loc
    ELSE EvictLoop(EvictLoopBody(loc, store, now, Head(order)), store, now, Tail(order))

\* every order in which a HashMap with key set S may be iterated
IterOrders(S) ==
    {o \in [1..Cardinality(S) -> S] : \A i, j \in 1..Cardinality(S) : i # j => o[i] # o[j]}

\* a mutant: evict drops the node but forgets the counter
evict_keeps_counter ==
    /\ \E order \in IterOrders(Known) :
          LET loc == EvictLoop(EvictLocals0, node_store, current_timestamp, order)
          IN  IF loc.modded
              THEN /\ node_store' = MapDel(node_store, loc.max_frame_id)
                   /\ evictable_size' = evictable_size
                   /\ accesses' = MapDel(accesses, loc.max_frame_id)
                   /\ unpinned' = unpinned \ {loc.max_frame_id}
                   /\ dropped' = dropped \cup {loc.max_frame_id}
                   /\ r_ret' = Some(loc.max_frame_id)
              ELSE /\ r_ret' = None
                   /\ UNCHANGED <<node_store, evictable_size, accesses, unpinned, dropped>>
    /\ r_op' = [name |-> "evict", arg |-> 0]
    /\ r_pre' = Snapshot
    /\ UNCHANGED <<current_timestamp, k>>

evict ==
    /\ \E order \in IterOrders(Known) :
          LET loc == EvictLoop(EvictLocals0, node_store, current_timestamp, order)
          IN  IF loc.modded
              THEN /\ node_store' = MapDel(node_store, loc.max_frame_id)
                   /\ evictable_size' = evictable_size - 1
                   /\ accesses' = MapDel(accesses, loc.max_frame_id)
                   /\ unpinned' = unpinned \ {loc.max_frame_id}
                   /\ dropped' = dropped \cup {loc.max_frame_id}
                   /\ r_ret' = Some(loc.max_frame_id)
              ELSE /\ r_ret' = None
                   /\ UNCHANGED <<node_store, evictable_size, accesses, unpinned, dropped>>
    /\ r_op' = [name |-> "evict", arg |-> 0]
    /\ r_pre' = Snapshot
    /\ UNCHANGED <<current_timestamp, k>>

\* a mutant: remove drops the node whatever its flag
remove_any(frame_id) ==
    /\ IF frame_id \notin Known
       THEN UNCHANGED <<node_store, evictable_size, accesses, unpinned, dropped>>
       ELSE /\ node_store' = MapDel(node_store, frame_id)
            /\ evictable_size' = evictable_size - 1
            /\ accesses' = MapDel(accesses, frame_id)
            /\ unpinned' = unpinned \ {frame_id}
            /\ dropped' = dropped \cup {frame_id}
    /\ r_op' = [name |-> "remove", arg |-> frame_id]
    /\ r_ret' = Unit
    /\ r_pre' = Snapshot
    /\ UNCHANGED <<current_timestamp, k>>

remove(frame_id) ==
    /\ IF frame_id \notin Known
       THEN UNCHANGED <<node_store, evictable_size, accesses, unpinned, dropped>>
       ELSE IF node_store[frame_id].is_evictable
            THEN /\ node_store' = MapDel(node_store, frame_id)
                 /\ evictable_size' = evictable_size - 1
                 /\ accesses' = MapDel(accesses, frame_id)
                 /\ unpinned' = unpinned \ {frame_id}
                 /\ dropped' = dropped \cup {frame_id}
            ELSE UNCHANGED <<node_store, evictable_size, accesses, unpinned, dropped>>
    /\ r_op' = [name |-> "remove", arg |-> frame_id]
    /\ r_ret' = Unit
    /\ r_pre' = Snapshot
    /\ UNCHANGED <<current_timestamp, k>>

evictable_count == evictable_size

RecordAccess == (\E f \in Frames : record_access(f)) /\ UNCHANGED <<p_vars, i_vars, l_vars>>
Pin == (\E f \in Frames : pin(f)) /\ UNCHANGED <<p_vars, i_vars, l_vars>>
Unpin == (\E f \in Frames : unpin(f)) /\ UNCHANGED <<p_vars, i_vars, l_vars>>
Evict == evict /\ UNCHANGED <<p_vars, i_vars, l_vars>>
Remove == (\E f \in Frames : remove(f)) /\ UNCHANGED <<p_vars, i_vars, l_vars>>

RNext == RecordAccess \/ Pin \/ Unpin \/ Evict \/ Remove

----------------------------------------------------------------------------
\* TablePage: the slotted page over the bytes of one frame

\* Bounds of the page model.  PAGE_SIZE is crate::page::PAGE_SIZE scaled down so that a
\* page fills after a few inserts; the layout constants below are the real ones.
PAGE_SIZE == 34
MaxTupleLen == 3
NumPageIds == 2
MaxSlotId == 2
MaxInserts == 3

\* mem::size_of::<TablePageHeader>() and mem::size_of::<TupleInfo>()
TABLE_PAGE_HEADER_SIZE == 16
TUPLE_INFO_SIZE == 6
\* the number of values of a u16 (TupleInfo.offset, TupleInfo.size_bytes)
U16_RANGE == 65536

PageIds == 1..NumPageIds
\* crate::page::INVALID_PAGE_ID, the end of a page chain
INVALID_PAGE_ID == 0
SlotIds == 0..MaxSlotId

Ok(x) == [tag |-> "Ok", val |-> x]
Err(kind) == [tag |-> "Err", kind |-> kind]

\* RecordId::new(page_id, slot_id)
RecordId(pid, sid) == [page_id |-> pid, slot_id |-> sid]

\* TupleMetadata::new(is_deleted): the flag as a u8 and one zero padding byte
TupleMetadata_new(is_deleted) == [is_deleted |-> IF is_deleted THEN 1 ELSE 0, _padding |-> 0]
\* TupleMetadata::is_deleted
is_deleted(meta) == meta.is_deleted # 0

\* the tuples the model inserts: len bytes 1, 2, .., len
TupleOfLen(len) == [i \in 1..len |-> i]
\* a tuple of zero bytes that fills the page down to the tuple_cnt field of the header
PageFillingTuple == [i \in 1..(PAGE_SIZE - 4) |-> 0]
Tuples == {TupleOfLen(len) : len \in 0..MaxTupleLen} \cup {PageFillingTuple}
Metadatas == {TupleMetadata_new(b) : b \in BOOLEAN}

\* little-endian integers in the frame (bytemuck casts of #[repr(C)] structs)
\* data()[o]: the frame is the sequence of its PAGE_SIZE bytes, byte o at index o + 1
ByteAt(d, o) == d[o + 1]
U16At(d, o) == ByteAt(d, o) + 256 * ByteAt(d, o + 1)
U32At(d, o) == ByteAt(d, o) + 256 * ByteAt(d, o + 1) + 65536 * ByteAt(d, o + 2)
                  + 16777216 * ByteAt(d, o + 3)
U16Bytes(v) == <<v % 256, (v \div 256) % 256>>
U32Bytes(v) == <<v % 256, (v \div 256) % 256, (v \div 65536) % 256, (v \div 16777216) % 256>>

\* data_mut()[o .. o + Len(bytes)].copy_from_slice(bytes)
WriteBytes(d, o, bytes) ==
    [i \in 1..Len(d) |-> IF i - 1 >= o /\ i - 1 < o + Len(bytes) THEN bytes[i - o] ELSE d[i]]

\* TablePage::header: the first TABLE_PAGE_HEADER_SIZE bytes as a TablePageHeader
header(d) == [next_page_id |-> U32At(d, 0), tuple_cnt |-> U32At(d, 4),
              deleted_tuple_cnt |-> U32At(d, 8)]

tuple_count(d) == header(d).tuple_cnt
next_page_id(d) == header(d).next_page_id

\* slot_array / slot_array_mut slice data()[HDR .. HDR + tuple_cnt * SLOT]: the slice
\* panics when its end lies beyond the frame
slot_array_in_frame(d) ==
    tuple_count(d) <= (PAGE_SIZE - TABLE_PAGE_HEADER_SIZE) \div TUPLE_INFO_SIZE

\* slot_array()[i]: the i-th TupleInfo
slot_array_at(d, i) ==
    LET o == TABLE_PAGE_HEADER_SIZE + i * TUPLE_INFO_SIZE
    IN  [offset |-> U16At(d, o), size_bytes |-> U16At(d, o + 2),
         metadata |-> [is_deleted |-> ByteAt(d, o + 4), _padding |-> ByteAt(d, o + 5)]]

\* TablePage::validate_record_id (no method of the page calls it)
validate_record_id(d, pid, rid) ==
    IF rid.page_id # pid \/ rid.slot_id >= tuple_count(d)
    THEN Err("InvalidInput")
    ELSE Ok(Unit)

\* TablePage::get_tuple
get_tuple(d, rid, checks) ==
    IF ~slot_array_in_frame(d) \/ rid.slot_id >= tuple_count(d) THEN Panic
    ELSE LET tuple_info == slot_array_at(d, rid.slot_id)
             sum == tuple_info.offset + tuple_info.size_bytes
             end == sum % U16_RANGE
         IN  IF sum >= U16_RANGE /\ checks THEN Panic
             ELSE IF tuple_info.offset > end \/ end > PAGE_SIZE THEN Panic
             ELSE Ok([metadata |-> tuple_info.metadata,
                      tuple |-> [i \in 1..(end - tuple_info.offset) |->
                                     ByteAt(d, tuple_info.offset + i - 1)]])

\* a mutant: a placement that takes every tuple from the end of the page
get_next_tuple_offset_from_page_end(d, tuple, checks) ==
    Ok((PAGE_SIZE - Len(tuple)) % U16_RANGE)

\* TablePage::get_next_tuple_offset
get_next_tuple_offset(d, tuple, checks) ==
    LET size == Len(tuple)
    IN  IF tuple_count(d) = 0
        THEN IF size > PAGE_SIZE /\ checks THEN Panic
             ELSE Ok((PAGE_SIZE - size) % U16_RANGE)
        ELSE IF ~slot_array_in_frame(d) THEN Panic
        ELSE LET last_tuple_offset == slot_array_at(d, tuple_count(d) - 1).offset
                 size16 == size % U16_RANGE
             IN  IF last_tuple_offset < size16 /\ checks THEN Panic
                 ELSE Ok((last_tuple_offset - size16) % U16_RANGE)

\* TablePage::init_header
init_header(d, next) ==
    WriteBytes(d, 0, U32Bytes(next) \o U32Bytes(0) \o U32Bytes(0) \o <<0, 0, 0, 0>>)

\* TablePage::insert_tuple: [data: the frame afterwards, ret: the result]
insert_tuple(d, pid, meta, tuple, checks) ==
    LET offset == get_next_tuple_offset(d, tuple, checks)
    IN  IF offset.tag # "Ok" THEN [data |-> d, ret |-> offset]
        ELSE
        LET d1 == WriteBytes(d, 4, U32Bytes(tuple_count(d) + 1))
            \* (the u32 increment cannot overflow: with tuple_cnt > 0 the slot array was
            \* just sliced inside the frame)
            tuple_cnt == tuple_count(d1)
            o == TABLE_PAGE_HEADER_SIZE + (tuple_cnt - 1) * TUPLE_INFO_SIZE
        IN  IF ~slot_array_in_frame(d1) THEN [data |-> d1, ret |-> Panic]
            ELSE
            LET d2 == WriteBytes(d1, o, U16Bytes(offset.val))
                d3 == WriteBytes(d2, o + 2, U16Bytes(Len(tuple) % U16_RANGE))
                d4 == WriteBytes(d3, o + 4, <<meta.is_deleted, meta._padding>>)
            IN  IF offset.val + Len(tuple) > PAGE_SIZE THEN [data |-> d4, ret |-> Panic]
                ELSE [data |-> WriteBytes(d4, offset.val, tuple),
                      ret |-> Ok(RecordId(pid, tuple_cnt - 1))]

\* TablePage::update_tuple_metadata: the flag is set on a copy of the slot
update_tuple_metadata(d, rid, meta) ==
    IF ~slot_array_in_frame(d) \/ rid.slot_id >= tuple_count(d)
    THEN [data |-> d, ret |-> Panic]
    ELSE [data |-> d, ret |-> Ok(Unit)]

\* the slot directory of frame d ends here
DirectoryEnd(d) == TABLE_PAGE_HEADER_SIZE + tuple_count(d) * TUPLE_INFO_SIZE

\* the offset the placement rule gives a tuple of the given size on frame d, as an
\* unbounded integer: PAGE_SIZE - size on an empty page, else last offset - size
PlacementOffset(d, size) ==
    IF tuple_count(d) = 0 THEN PAGE_SIZE - size
    ELSE slot_array_at(d, tuple_count(d) - 1).offset - size

\* the space rule of the page layout: the payload of a tuple of the given size starts
\* at or above the end of the directory extended by one slot
Fits(d, size) ==
    /\ slot_array_in_frame(d)
    /\ PlacementOffset(d, size) >= DirectoryEnd(d) + TUPLE_INFO_SIZE

NoArgs == [name |-> "", rid |-> RecordId(0, 0), meta |-> TupleMetadata_new(FALSE), tuple |-> <<>>, next |-> 0]

\* a frame handed out by the buffer pool, before init_header
PInit ==
    /\ page_data = [i \in 1..PAGE_SIZE |-> 0]
    /\ page_id = 1
    /\ overflow_checks \in BOOLEAN
    /\ p_op = [NoArgs EXCEPT !.name = "create"]
    /\ p_ret = Unit
    /\ p_pre = [i \in 1..PAGE_SIZE |-> 0]
    /\ p_all_fit = TRUE
    /\ p_rids = <<>>

\* a panic ends the use of the page
PageUsable == p_op.name # "create" /\ p_ret # Panic

InitHeader ==
    /\ p_op.name = "create"
    /\ \E next \in {INVALID_PAGE_ID} \cup (PageIds \ {page_id}) :
          /\ page_data' = init_header(page_data, next)
          /\ p_op' = [NoArgs EXCEPT !.name = "init_header", !.next = next]
    /\ p_ret' = Unit
    /\ p_pre' = page_data
    /\ UNCHANGED <<page_id, overflow_checks, p_all_fit, p_rids, r_vars, i_vars, l_vars>>

InsertTuple ==
    /\ PageUsable
    \* a page whose tuple_cnt still counts the successful inserts is bounded by its
    \* own size; once a payload has overwritten tuple_cnt the inserts are capped
    /\ Len(p_rids) < MaxInserts \/ Len(p_rids) = tuple_count(page_data)
    /\ \E meta \in Metadatas, tuple \in Tuples :
          LET res == insert_tuple(page_data, page_id, meta, tuple, overflow_checks)
          IN  /\ page_data' = res.data
              /\ p_ret' = res.ret
              /\ p_op' = [NoArgs EXCEPT !.name = "insert_tuple", !.meta = meta, !.tuple = tuple]
              /\ p_all_fit' = (p_all_fit /\ Fits(page_data, Len(tuple)))
              /\ p_rids' = IF res.ret.tag = "Ok" THEN Append(p_rids, res.ret.val) ELSE p_rids
    /\ p_pre' = page_data
    /\ UNCHANGED <<page_id, overflow_checks, r_vars, i_vars, l_vars>>

GetTuple ==
    /\ PageUsable
    /\ \E pid \in PageIds, sid \in SlotIds :
          /\ p_ret' = get_tuple(page_data, RecordId(pid, sid), overflow_checks)
          /\ p_op' = [NoArgs EXCEPT !.name = "get_tuple", !.rid = RecordId(pid, sid)]
    /\ p_pre' = page_data
    /\ UNCHANGED <<page_data, page_id, overflow_checks, p_all_fit, p_rids, r_vars, i_vars, l_vars>>

UpdateTupleMetadata ==
    /\ PageUsable
    /\ \E pid \in PageIds, sid \in SlotIds, meta \in Metadatas :
          LET res == update_tuple_metadata(page_data, RecordId(pid, sid), meta)
          IN  /\ page_data' = res.data
              /\ p_ret' = res.ret
              /\ p_op' = [NoArgs EXCEPT !.name = "update_tuple_metadata",
                                        !.rid = RecordId(pid, sid), !.meta = meta]
    /\ p_pre' = page_data
    /\ UNCHANGED <<page_id, overflow_checks, p_all_fit, p_rids, r_vars, i_vars, l_vars>>

PNext == InitHeader \/ InsertTuple \/ GetTuple \/ UpdateTupleMetadata

----------------------------------------------------------------------------
\* The table a TableTupleIterator scans

\* the most tuples the heap puts into one page
MaxHeapTuples == 2

\* u64::from(RecordId): the page id above the slot id (the shift is 2^32 in the
\* program; 2^16 keeps the packed value inside the model's integers)
SLOT_ID_RANGE == 65536
RecordId_to_u64(rid) == rid.page_id * SLOT_ID_RANGE + rid.slot_id

\* the frame a fresh page starts from
ZeroFrame == [i \in 1..PAGE_SIZE |-> 0]

\* TableHeap::insert_tuple into page pid, for each metadata of metas in turn: the
\* i-th tuple of a page is TupleOfLen(i); fit tells that every insert had room
RECURSIVE BuildPage(_, _, _, _)
BuildPage(acc, pid, metas, i) ==
    IF i > Len(metas) THEN acc
    ELSE BuildPage([data |-> insert_tuple(acc.data, pid, metas[i], TupleOfLen(i), TRUE).data,
                    fit  |-> acc.fit /\ Fits(acc.data, i)],
                   pid, metas, i + 1)

\* what one page of the heap can hold: the metadata of its tuples, in slot order
PageContents ==
    {metas \in UNION {[1..n -> Metadatas] : n \in 0..MaxHeapTuples} :
        BuildPage([data |-> init_header(ZeroFrame, INVALID_PAGE_ID), fit |-> TRUE],
                  1, metas, 1).fit}

\* the page chains of a heap: page ids without repetition, the first page first
Chains ==
    {chain \in UNION {[1..n -> PageIds] : n \in 0..NumPageIds} :
        \A i, j \in 1..Len(chain) : i # j => chain[i] # chain[j]}

\* TableHeap::first_page_id
first_page_id(heap) == heap.first_page_id

\* the page after chain[i]
ChainSuccessor(chain, i) == IF i < Len(chain) THEN chain[i + 1] ELSE INVALID_PAGE_ID

\* the bytes of the pages of a heap with the given chain and tuples
HeapPages(chain, tuples) ==
    [pid \in {chain[i] : i \in 1..Len(chain)} |->
        LET i == CHOOSE j \in 1..Len(chain) : chain[j] = pid
        IN  BuildPage([data |-> init_header(ZeroFrame, ChainSuccessor(chain, i)),
                       fit |-> TRUE],
                      pid, tuples[pid], 1).data]

\* BufferPoolManager::fetch_page_handle: an I/O error for the pages in failing, else
\* the bytes of the page; a page the heap never allocated reads as zero bytes
fetch_page_handle(pgs, pid, failing) ==
    IF pid \in failing THEN Err("Io")
    ELSE IF pid \in DOMAIN pgs THEN Ok(pgs[pid])
    ELSE Ok(ZeroFrame)

----------------------------------------------------------------------------
\* TableTupleIterator

\* the inner loop has run past the last slot of the page
Exhausted == [tag |-> "Exhausted"]

\* a mutant: deleted tuples are yielded too
is_yielded_any(meta) == TRUE

\* if !tuple_metadata.is_deleted() { return Some(Ok(..)) }
is_yielded(meta) == ~is_deleted(meta)

\* while self.current_slot < num_tuples_in_page { .. }: [slot: current_slot
\* afterwards, ret: the value returned from inside the loop, or Exhausted]
RECURSIVE ScanSlots(_, _, _, _)
ScanSlots(d, pid, slot, checks) ==
    IF slot < tuple_count(d)
    THEN LET record_id == RecordId(pid, slot)
             got == get_tuple(d, record_id, checks)
         IN  IF got = Panic THEN [slot |-> slot + 1, ret |-> Panic]
             ELSE IF got.tag = "Err" THEN [slot |-> slot + 1, ret |-> Some(got)]
             ELSE IF is_yielded(got.val.metadata)
                  THEN [slot |-> slot + 1,
                        ret |-> Some(Ok(<<RecordId_to_u64(record_id), got.val.tuple>>))]
                  ELSE ScanSlots(d, pid, slot + 1, checks)
    ELSE [slot |-> slot, ret |-> Exhausted]

\* the page handle is bound: one more pin
PinHandle(loc, pid) ==
    [loc EXCEPT !.pins = @ \cup {pid},
                !.max_pins = IF Cardinality(loc.pins \cup {pid}) > @
                             THEN Cardinality(loc.pins \cup {pid}) ELSE @]

\* a mutant: the handle outlives the loop body
DropHandle_leak(loc, pid) == loc

\* table_page goes out of scope (end of the loop body, or a return): the pin is released
DropHandle(loc, pid) == [loc EXCEPT !.pins = @ \ {pid}]

\* a mutant: a failed fetch ends the scan
OnFetchError_poison(loc, e) ==
    [loc EXCEPT !.ret = Some(e), !.page = INVALID_PAGE_ID]

\* a mutant: a failed fetch rewinds the cursor to the start of the page
OnFetchError_rewind(loc, e) ==
    [loc EXCEPT !.ret = Some(e), !.slot = 0]

\* Err(e) => return Some(Err(e)): the fields are left as they are
OnFetchError(loc, e) == [loc EXCEPT !.ret = Some(e)]

\* a mutant: every call starts again at the first slot of the current page
NextLocals0_restart ==
    [page |-> current_page_id, slot |-> 0, pins |-> {}, max_pins |-> 0,
     fetched |-> <<>>, failed |-> {}, ret |-> Unit]

\* the locals and fields of a next call as it starts
NextLocals0 ==
    [page |-> current_page_id, slot |-> current_slot, pins |-> {}, max_pins |-> 0,
     fetched |-> <<>>, failed |-> {}, ret |-> Unit]

\* the loop of TableTupleIterator::next
RECURSIVE NextLoop(_, _, _, _)
NextLoop(loc, pgs, failing, checks) ==
    LET handle == fetch_page_handle(pgs, loc.page, failing)
        asked == [loc EXCEPT !.fetched = Append(@, loc.page)]
    IN  IF handle.tag = "Err"
        THEN OnFetchError([asked EXCEPT !.failed = @ \cup {loc.page}], handle)
        ELSE
        LET d == handle.val
            held == PinHandle(asked, loc.page)
        IN  IF ~slot_array_in_frame(d)
            THEN [DropHandle(held, loc.page) EXCEPT !.ret = Panic]
            ELSE
            LET scan == ScanSlots(d, loc.page, loc.slot, checks)
            IN  IF scan.ret # Exhausted
                THEN [DropHandle(held, loc.page) EXCEPT !.slot = scan.slot, !.ret = scan.ret]
                ELSE
                LET turned == [held EXCEPT !.slot = scan.slot, !.page = next_page_id(d)]
                IN  IF turned.page = INVALID_PAGE_ID
                    THEN [DropHandle(turned, loc.page) EXCEPT !.ret = None]
                    ELSE \* loop back to the fetch with the fields as they are now
                         CHOOSE out \in
                             {NextLoop(fields, pgs, failing, checks) :
                                 fields \in {[DropHandle(turned, loc.page) EXCEPT !.slot = 0]}} :
                             TRUE

\* a heap with some chain and some tuples, no iterator yet
IInit ==
    /\ \E chain \in Chains :
       \E tuples \in [{chain[i] : i \in 1..Len(chain)} -> PageContents] :
          /\ table_heap = [first_page_id |-> ChainSuccessor(chain, 0),
                           chain |-> chain, tuples |-> tuples]
          /\ pages = HeapPages(chain, tuples)
    /\ heap_readers = 0
    /\ heap_writer = FALSE
    /\ it_state = "none"
    /\ current_page_id = INVALID_PAGE_ID
    /\ current_slot = 0
    /\ i_op = "none"
    /\ i_ret = Unit
    /\ i_pre = [current_page_id |-> INVALID_PAGE_ID, current_slot |-> 0, ret |-> Unit,
                failed |-> {}]
    /\ i_fetched = <<>>
    /\ i_failed = {}
    /\ i_pins = {}
    /\ i_max_pins = 0
    /\ yielded = <<>>
    /\ ended = FALSE
    /\ fetch_failed = FALSE

\* TableTupleIterator::new: the read guard is a temporary of the statement that reads
\* first_page_id and is dropped at its end
IterNew ==
    /\ it_state = "none"
    /\ ~heap_writer
    /\ LET guarded == heap_readers + 1
       IN  /\ current_page_id' = first_page_id(table_heap)
           /\ heap_readers' = guarded - 1
    /\ current_slot' = 0
    /\ it_state' = "live"
    /\ i_op' = "new"
    /\ i_pre' = [current_page_id |-> current_page_id, current_slot |-> current_slot,
                 ret |-> i_ret, failed |-> i_failed]
    /\ UNCHANGED <<table_heap, pages, heap_writer, i_ret, i_fetched, i_failed, i_pins,
                   i_max_pins, yielded, ended, fetch_failed, r_vars, p_vars, l_vars>>

\* TableTupleIterator::next
IterNext ==
    /\ it_state = "live"
    /\ i_ret # Panic
    /\ \E failing \in {{}} \cup {{pid} : pid \in {INVALID_PAGE_ID} \cup PageIds} :
          \E done \in {NextLoop(NextLocals0, pages, failing, overflow_checks)} :
              /\ current_page_id' = done.page
              /\ current_slot' = done.slot
              /\ i_ret' = done.ret
              /\ i_fetched' = done.fetched
              /\ i_failed' = done.failed
              /\ i_pins' = done.pins
              /\ i_max_pins' = done.max_pins
              /\ yielded' = IF ~ended /\ done.ret.tag = "Some" /\ done.ret.val.tag = "Ok"
                            THEN Append(yielded, done.ret.val.val) ELSE yielded
              /\ ended' = (ended \/ done.ret = None)
              /\ fetch_failed' = (fetch_failed \/ done.failed # {})
    /\ i_op' = "next"
    /\ i_pre' = [current_page_id |-> current_page_id, current_slot |-> current_slot,
                 ret |-> i_ret, failed |-> i_failed]
    /\ UNCHANGED <<table_heap, pages, heap_readers, heap_writer, it_state,
                   r_vars, p_vars, l_vars>>

\* another thread takes the heap's write lock: RwLock::write waits for the read guards
WriterLock ==
    /\ ~heap_writer
    /\ heap_readers = 0
    /\ heap_writer' = TRUE
    /\ UNCHANGED <<table_heap, pages, heap_readers, it_state, current_page_id,
                   current_slot, i_op, i_ret, i_pre, i_fetched, i_failed, i_pins,
                   i_max_pins, yielded, ended, fetch_failed, r_vars, p_vars, l_vars>>

\* the write guard is dropped
WriterUnlock ==
    /\ heap_writer
    /\ heap_writer' = FALSE
    /\ UNCHANGED <<table_heap, pages, heap_readers, it_state, current_page_id,
                   current_slot, i_op, i_ret, i_pre, i_fetched, i_failed, i_pins,
                   i_max_pins, yielded, ended, fetch_failed, r_vars, p_vars, l_vars>>

INext == IterNew \/ IterNext \/ WriterLock \/ WriterUnlock

----------------------------------------------------------------------------
\* LruReplacer

\* the most calls made on one LruReplacer
MaxLruCalls == 3

\* LruReplacer::new
LInit ==
    /\ l_node_store = << >>
    /\ l_evictable_count = 0
    /\ l_current_timestamp = 0
    /\ l_calls = <<>>
    /\ l_ret = Unit

\* todo!(..): the call panics before it reads or writes a field
todo == Panic

\* a call returns ret and is logged; the fields stay as they are
LruCall(name, arg, ret) ==
    /\ l_ret' = ret
    /\ l_calls' = Append(l_calls, [name |-> name, arg |-> arg, ret |-> ret])
    /\ UNCHANGED <<l_node_store, l_evictable_count, l_current_timestamp,
                   r_vars, p_vars, i_vars>>

\* LruReplacer::evict
LruEvict ==
    /\ Len(l_calls) < MaxLruCalls
    /\ LruCall("evict", 0, todo)

\* LruReplacer::pin
LruPin ==
    /\ Len(l_calls) < MaxLruCalls
    /\ \E frame_id \in Frames : LruCall("pin", frame_id, todo)

\* LruReplacer::unpin
LruUnpin ==
    /\ Len(l_calls) < MaxLruCalls
    /\ \E frame_id \in Frames : LruCall("unpin", frame_id, todo)

\* LruReplacer::record_access
LruRecordAccess ==
    /\ Len(l_calls) < MaxLruCalls
    /\ \E frame_id \in Frames : LruCall("record_access", frame_id, todo)

\* LruReplacer::remove
LruRemove ==
    /\ Len(l_calls) < MaxLruCalls
    /\ \E frame_id \in Frames : LruCall("remove", frame_id, todo)

\* LruReplacer::evictable_count
LruEvictableCount ==
    /\ Len(l_calls) < MaxLruCalls
    /\ LruCall("evictable_count", 0, l_evictable_count)

LNext == LruEvict \/ LruPin \/ LruUnpin \/ LruRecordAccess \/ LruRemove \/ LruEvictableCount

----------------------------------------------------------------------------
\* The specifications: one component runs, the others stay as constructed

\* the replacer while the page runs
RIdle ==
    /\ k = 1
    /\ node_store = << >>
    /\ evictable_size = 0
    /\ current_timestamp = 0
    /\ r_op = [name |-> "new", arg |-> 0]
    /\ r_ret = Unit
    /\ accesses = << >>
    /\ unpinned = {}
    /\ dropped = {}
    /\ r_pre = [node_store |-> << >>, evictable_size |-> 0, current_timestamp |-> 0,
                accesses |-> << >>, unpinned |-> {}, dropped |-> {}]

\* the page while the replacer runs
PIdle ==
    /\ page_data = [i \in 1..PAGE_SIZE |-> 0]
    /\ page_id = 1
    /\ overflow_checks = TRUE
    /\ p_op = [NoArgs EXCEPT !.name = "create"]
    /\ p_ret = Unit
    /\ p_pre = [i \in 1..PAGE_SIZE |-> 0]
    /\ p_all_fit = TRUE
    /\ p_rids = <<>>

\* the iterator and its table while another component runs
IIdle ==
    /\ table_heap = [first_page_id |-> INVALID_PAGE_ID, chain |-> <<>>, tuples |-> << >>]
    /\ pages = << >>
    /\ heap_readers = 0
    /\ heap_writer = FALSE
    /\ it_state = "none"
    /\ current_page_id = INVALID_PAGE_ID
    /\ current_slot = 0
    /\ i_op = "none"
    /\ i_ret = Unit
    /\ i_pre = [current_page_id |-> INVALID_PAGE_ID, current_slot |-> 0, ret |-> Unit,
                failed |-> {}]
    /\ i_fetched = <<>>
    /\ i_failed = {}
    /\ i_pins = {}
    /\ i_max_pins = 0
    /\ yielded = <<>>
    /\ ended = FALSE
    /\ fetch_failed = FALSE

\* the LRU replacer while another component runs
LIdle ==
    /\ l_node_store = << >>
    /\ l_evictable_count = 0
    /\ l_current_timestamp = 0
    /\ l_calls = <<>>
    /\ l_ret = Unit

InitLruk == RInit /\ PIdle /\ IIdle /\ LIdle
SpecLruk == InitLruk /\ [][RNext]_vars

InitPage == PInit /\ RIdle /\ IIdle /\ LIdle
SpecPage == InitPage /\ [][PNext]_vars

InitIter == IInit /\ RIdle /\ PIdle /\ LIdle
SpecIter == InitIter /\ [][INext]_vars
\* the consumer of the iterator keeps calling next (for .. in, collect)
SpecIterLive == InitIter /\ [][INext]_vars /\ WF_vars(IterNext)

InitLru == LInit /\ RIdle /\ PIdle /\ IIdle
SpecLru == InitLru /\ [][LNext]_vars

----------------------------------------------------------------------------
\* Vocabulary of the replacer claims, over a snapshot s of the replacer state

EvictableIn(s) == {f \in DOMAIN s.node_store : s.node_store[f].is_evictable}

\* the frame has at least K accesses since its node was created
HasKAccesses(s, f) == Len(s.accesses[f]) >= k

\* now minus the timestamp of the K-th most recent access
BackwardKDistance(s, f) ==
    s.current_timestamp - s.accesses[f][Len(s.accesses[f]) - k + 1]

EarliestHistory(s, f) == Head(s.node_store[f].history)

\* f comes before g as a victim: larger backward K-distance (+infinity when fewer than
\* K accesses), then smaller earliest history timestamp
VictimBefore(s, f, g) ==
    \/ ~HasKAccesses(s, f) /\ HasKAccesses(s, g)
    \/ /\ HasKAccesses(s, f) /\ HasKAccesses(s, g)
       /\ BackwardKDistance(s, f) > BackwardKDistance(s, g)
    \/ /\ \/ ~HasKAccesses(s, f) /\ ~HasKAccesses(s, g)
          \/ /\ HasKAccesses(s, f) /\ HasKAccesses(s, g)
             /\ BackwardKDistance(s, f) = BackwardKDistance(s, g)
       /\ EarliestHistory(s, f) < EarliestHistory(s, g)

Now == [node_store |-> node_store, evictable_size |-> evictable_size,
        current_timestamp |-> current_timestamp,
        accesses |-> accesses, unpinned |-> unpinned]

\* the replacer state proper (without the observation variables)
SameReplacerState(s, t) ==
    /\ s.node_store = t.node_store
    /\ s.evictable_size = t.evictable_size
    /\ s.current_timestamp = t.current_timestamp

----------------------------------------------------------------------------
\* C1: evict() returns the evictable frame with the largest backward K-distance
\* (+infinity with fewer than K accesses); among equal distances the frame with the
\* smallest earliest history timestamp.
C1_EvictChoice ==
    (r_op.name = "evict" /\ EvictableIn(r_pre) # {}) =>
        \E f \in EvictableIn(r_pre) :
            /\ r_ret = Some(f)
            /\ \A g \in EvictableIn(r_pre) \ {f} : VictimBefore(r_pre, f, g)

\* an eviction that had to choose among a frame with a finite distance and two frames
\* tied at +infinity
C1_Witness ==
    /\ r_op.name = "evict"
    /\ r_ret.tag = "Some"
    /\ \E g, h \in EvictableIn(r_pre) \ {r_ret.val} :
          /\ ~HasKAccesses(r_pre, g) /\ ~HasKAccesses(r_pre, r_ret.val)
          /\ HasKAccesses(r_pre, h)

\* C2: evictable_count() equals the number of known frames whose is_evictable flag is
\* set, in every reachable state; the counter never goes below zero.
C2_CountMatches ==
    /\ evictable_count = Cardinality(EvictableIn(Now))
    /\ evictable_count >= 0

\* a state reached by pin, unpin, remove and evict in which evictable and pinned frames
\* coexist
C2_Witness ==
    /\ r_op.name = "pin"
    /\ r_op.arg \in EvictableIn(r_pre)
    /\ evictable_count = 1
    /\ Cardinality(Known) = 3

\* C3: evict returns None exactly when no known frame is evictable, and then changes
\* nothing; when it returns Some(f), exactly node f is removed and the counter drops by one.
C3_EvictEffect ==
    r_op.name = "evict" =>
        /\ (r_ret = None) <=> (EvictableIn(r_pre) = {})
        /\ r_ret = None => SameReplacerState(Now, r_pre)
        /\ r_ret # None =>
              /\ r_ret.tag = "Some"
              /\ r_ret.val \in DOMAIN r_pre.node_store
              /\ node_store = MapDel(r_pre.node_store, r_ret.val)
              /\ evictable_size = r_pre.evictable_size - 1
              /\ current_timestamp = r_pre.current_timestamp

\* evict found nothing although frames are known (all of them pinned)
C3_Witness ==
    /\ r_op.name = "evict"
    /\ r_ret = None
    /\ Cardinality(Known) >= 2

\* C4: pin of a known non-evictable frame and unpin of a known evictable frame leave the
\* counter and the whole replacer state unchanged.
C4_Idempotent ==
    /\ (r_op.name = "pin" /\ r_op.arg \in DOMAIN r_pre.node_store
          /\ ~r_pre.node_store[r_op.arg].is_evictable)
            => SameReplacerState(Now, r_pre)
    /\ (r_op.name = "unpin" /\ r_op.arg \in DOMAIN r_pre.node_store
          /\ r_pre.node_store[r_op.arg].is_evictable)
            => SameReplacerState(Now, r_pre)

\* unpin of a frame that is already evictable, with the counter above zero
C4_Witness ==
    /\ r_op.name = "unpin"
    /\ r_op.arg \in DOMAIN r_pre.node_store
    /\ r_pre.node_store[r_op.arg].is_evictable
    /\ r_pre.evictable_size >= 1

\* C5: remove(f) of a known evictable frame deletes the node and decrements the counter;
\* of a known non-evictable or an unknown frame it changes nothing.
C5_RemoveEffect ==
    r_op.name = "remove" =>
        IF r_op.arg \in EvictableIn(r_pre)
        THEN /\ node_store = MapDel(r_pre.node_store, r_op.arg)
             /\ evictable_size = r_pre.evictable_size - 1
             /\ current_timestamp = r_pre.current_timestamp
        ELSE SameReplacerState(Now, r_pre)

\* remove of a known frame that is pinned
C5_Witness ==
    /\ r_op.name = "remove"
    /\ r_op.arg \in DOMAIN r_pre.node_store
    /\ ~r_pre.node_store[r_op.arg].is_evictable
    /\ Len(r_pre.node_store[r_op.arg].history) = 2

\* C6: record_access of an unknown frame creates a non-evictable node that does not
\* count in evictable_count, and evict cannot return a frame before unpin was called
\* on it.
C6_NewNodePinned ==
    /\ (r_op.name = "record_access" /\ r_op.arg \notin DOMAIN r_pre.node_store) =>
          /\ r_op.arg \in Known
          /\ ~node_store[r_op.arg].is_evictable
          /\ evictable_count = r_pre.evictable_size
          /\ r_op.arg \notin unpinned
    /\ \A f \in Known : node_store[f].is_evictable => f \in unpinned
    /\ (r_op.name = "evict" /\ r_ret.tag = "Some") => r_ret.val \in r_pre.unpinned

\* a frame is accessed for the first time while another frame is evictable
C6_Witness ==
    /\ r_op.name = "record_access"
    /\ r_op.arg \notin DOMAIN r_pre.node_store
    /\ r_pre.evictable_size >= 1

----------------------------------------------------------------------------
\* Vocabulary of the page claims

\* no insert_tuple has failed: the page was initialised and nothing panicked
NoInsertFailed == p_op.name # "create" /\ p_ret # Panic

\* C7: if rid = insert_tuple(m, t) succeeds then get_tuple(rid) returns (m, t) byte for
\* byte (deleted or not) and tuple_count is one larger than before the insert.
C7_InsertThenGet ==
    (p_op.name = "insert_tuple" /\ p_ret.tag = "Ok") =>
        /\ LET got == get_tuple(page_data, p_ret.val, overflow_checks)
           IN  /\ got.tag = "Ok"
               /\ is_deleted(got.val.metadata) = is_deleted(p_op.meta)
               /\ got.val.tuple = p_op.tuple
        /\ tuple_count(page_data) = tuple_count(p_pre) + 1

\* C8: after init_header and any sequence of insert_tuple calls that do not fail, the
\* slot directory ends at or before every slot's payload and every payload lies inside
\* the page.
C8_DirectoryBelowPayloads ==
    NoInsertFailed =>
        /\ slot_array_in_frame(page_data)
        /\ \A i \in 0..(tuple_count(page_data) - 1) :
              /\ DirectoryEnd(page_data) <= slot_array_at(page_data, i).offset
              /\ slot_array_at(page_data, i).offset + slot_array_at(page_data, i).size_bytes
                    <= PAGE_SIZE

\* C9: insert_tuple fails with OutOfSpace whenever the new offset is below the projected
\* directory end HDR + (tuple_cnt + 1) * SLOT (or below zero), and the failure leaves the
\* page unchanged.
C9_OutOfSpace ==
    (p_op.name = "insert_tuple" /\ slot_array_in_frame(p_pre)
        /\ PlacementOffset(p_pre, Len(p_op.tuple))
              < DirectoryEnd(p_pre) + TUPLE_INFO_SIZE) =>
        /\ p_ret = Err("OutOfSpace")
        /\ page_data = p_pre

\* C10: get_tuple(rid) returns InvalidInput whenever rid names another page or a slot
\* at or past tuple_cnt; it returns a tuple only for a RecordId valid for this page.
C10_GetValidates ==
    p_op.name = "get_tuple" =>
        /\ validate_record_id(p_pre, page_id, p_op.rid).tag = "Err"
              => p_ret = Err("InvalidInput")
        /\ p_ret.tag = "Ok" => validate_record_id(p_pre, page_id, p_op.rid).tag = "Ok"

\* C11: after update_tuple_metadata(rid, {is_deleted: true}) succeeds on a RecordId
\* valid for the page, get_tuple(rid) reports the tuple as deleted (and so a scan no
\* longer yields it).
C11_DeletionVisible ==
    (/\ p_op.name = "update_tuple_metadata"
     /\ p_ret = Ok(Unit)
     /\ is_deleted(p_op.meta)
     /\ validate_record_id(p_pre, page_id, p_op.rid).tag = "Ok") =>
        LET got == get_tuple(page_data, p_op.rid, overflow_checks)
        IN  got.tag = "Ok" /\ is_deleted(got.val.metadata)

\* the offset the placement rule gives slot i of frame d from its predecessor
OffsetFromPredecessor(d, i) ==
    (IF i = 0 THEN PAGE_SIZE ELSE slot_array_at(d, i - 1).offset)
        - slot_array_at(d, i).size_bytes

\* C19 as stated: over inserts that all succeed (and all fit), slot offsets are strictly
\* decreasing in the slot index, zero-length tuples included.
C19_StrictlyDecreasing ==
    (p_all_fit /\ slot_array_in_frame(page_data)) =>
        \A i \in 1..(tuple_count(page_data) - 1) :
            slot_array_at(page_data, i).offset < slot_array_at(page_data, i - 1).offset

\* C19 (amended): over inserts that all fit, slot 0 has offset PAGE_SIZE - size and
\* slot[i+1].offset = slot[i].offset - slot[i+1].size, so slot offsets never increase
\* with the slot index and decrease strictly exactly at the tuples of non-zero length.
C19_Placement ==
    p_all_fit =>
        /\ slot_array_in_frame(page_data)
        /\ \A i \in 0..(tuple_count(page_data) - 1) :
              slot_array_at(page_data, i).offset = OffsetFromPredecessor(page_data, i)
        /\ \A i \in 1..(tuple_count(page_data) - 1) :
              /\ slot_array_at(page_data, i).offset <= slot_array_at(page_data, i - 1).offset
              /\ (slot_array_at(page_data, i).offset < slot_array_at(page_data, i - 1).offset)
                    <=> (slot_array_at(page_data, i).size_bytes > 0)

C19_Witness ==
    /\ p_all_fit
    /\ p_op.name = "insert_tuple"
    /\ p_ret.tag = "Ok"
    /\ tuple_count(page_data) = 2
    /\ slot_array_in_frame(page_data)
    /\ slot_array_at(page_data, 0).size_bytes > 0
    /\ slot_array_at(page_data, 1).size_bytes = 0

\* C20: the k-th successful insert_tuple on a page returns RecordId(page_id, k - 1), so
\* no two successful inserts return the same RecordId, whatever update_tuple_metadata
\* calls come between them.
C20_SlotIdsNeverReused ==
    \A i \in 1..Len(p_rids) : p_rids[i] = RecordId(page_id, i - 1)

----------------------------------------------------------------------------
\* Vocabulary of the iterator claims

\* the live tuples of page pid from its i-th tuple on, as the items a scan yields
RECURSIVE PageItems(_, _, _)
PageItems(pid, metas, i) ==
    IF i > Len(metas) THEN <<>>
    ELSE (IF is_deleted(metas[i]) THEN <<>>
          ELSE << <<RecordId_to_u64(RecordId(pid, i - 1)), TupleOfLen(i)>> >>)
         \o PageItems(pid, metas, i + 1)

\* the live tuples of the heap from the j-th page of its chain on
RECURSIVE ChainItems(_, _)
ChainItems(heap, j) ==
    IF j > Len(heap.chain) THEN <<>>
    ELSE PageItems(heap.chain[j], heap.tuples[heap.chain[j]], 1) \o ChainItems(heap, j + 1)

\* T \ D in scan order: page-chain order, slot order within a page
ExpectedItems == ChainItems(table_heap, 1)

\* the number of tuples inserted into the heap, deleted or not
RECURSIVE InsertedCount(_, _)
InsertedCount(heap, j) ==
    IF j > Len(heap.chain) THEN 0
    ELSE Len(heap.tuples[heap.chain[j]]) + InsertedCount(heap, j + 1)

IsPrefix(s, t) == Len(s) <= Len(t) /\ SubSeq(t, 1, Len(s)) = s

IoError == Some(Err("Io"))

ReturnedItem == i_ret.tag = "Some" /\ i_ret.val.tag = "Ok"

\* C12: on a stable heap with inserted tuples T of which D are marked deleted, with
\* every page fetch succeeding, the items next yields before its first end-of-iteration
\* are exactly T \ D, each once, in page-chain order and slot order within a page.
C12_Completeness ==
    (it_state = "live" /\ ~fetch_failed) =>
        /\ IsPrefix(yielded, ExpectedItems)
        /\ ended => yielded = ExpectedItems

C12_Witness ==
    /\ ended
    /\ ~fetch_failed
    /\ Len(table_heap.chain) = 2
    /\ table_heap.chain[1] > table_heap.chain[2]
    /\ Len(yielded) >= 2
    /\ Len(yielded) < InsertedCount(table_heap, 1)
    /\ \A pid \in DOMAIN table_heap.tuples : Len(table_heap.tuples[pid]) > 0

\* C13: next called while current_page_id = INVALID_PAGE_ID returns end-of-iteration
\* without asking the buffer pool for any page.
C13_NoFetchAtEnd ==
    (i_op = "next" /\ i_pre.current_page_id = INVALID_PAGE_ID) =>
        /\ i_ret = None
        /\ i_fetched = <<>>

\* C14: when next returns - an item, an error or end-of-iteration - the iterator holds
\* no page handle, and during the call it never held more than one.
C14_PinDiscipline ==
    /\ i_pins = {}
    /\ i_max_pins <= 1

C14_Witness ==
    /\ i_op = "next"
    /\ Len(i_fetched) = 2
    /\ i_failed = {}
    /\ ReturnedItem
    /\ i_max_pins = 1

\* C15 as stated: when the fetch of the current page (a page of the heap) fails next
\* returns one Err item, and the next call after it returns end-of-iteration.
C15_ErrThenEnd ==
    i_op = "next" =>
        /\ i_failed # {} => i_ret = IoError
        /\ (i_pre.failed # {} /\ i_pre.current_page_id \in DOMAIN pages) => i_ret = None

\* C15 (amended): when the fetch of the current page fails next returns one Err item;
\* the call after it asks for the same page again and, when that fetch succeeds, goes
\* on with the scan: it returns the next live tuple, or end-of-iteration once every
\* live tuple has been yielded.
C15_ErrThenRetry ==
    i_op = "next" =>
        /\ i_failed # {} => i_ret = IoError
        /\ i_pre.failed # {} =>
              /\ i_fetched # <<>>
              /\ i_fetched[1] \in i_pre.failed
              /\ i_failed = {} =>
                    /\ i_ret # IoError
                    /\ i_ret = None => yielded = ExpectedItems
                    /\ (ReturnedItem /\ ~ended) =>
                          /\ yielded # <<>>
                          /\ i_ret.val.val = yielded[Len(yielded)]
                          /\ IsPrefix(yielded, ExpectedItems)

C15_Witness ==
    /\ i_op = "next"
    /\ i_pre.failed # {}
    /\ i_failed = {}
    /\ ReturnedItem
    /\ Len(yielded) >= 2

\* C16 as stated: a next call whose page fetch fails returns Some(Err) and leaves
\* (current_page_id, current_slot) as they were before the call.
C16_CursorUnchanged ==
    (i_op = "next" /\ i_failed # {}) =>
        /\ i_ret = IoError
        /\ current_page_id = i_pre.current_page_id
        /\ current_slot = i_pre.current_slot

\* C16 (amended): a next call whose page fetch fails returns Some(Err) and leaves the
\* cursor at the page whose fetch failed - unchanged when that was the first fetch of
\* the call, at slot 0 of a later page otherwise - so a scan with failed fetches yields
\* the same tuples in the same order as a scan with none.
C16_Resumable ==
    /\ (i_op = "next" /\ i_failed # {}) =>
          /\ i_ret = IoError
          /\ i_failed = {current_page_id}
          /\ Len(i_fetched) = 1 =>
                /\ current_page_id = i_pre.current_page_id
                /\ current_slot = i_pre.current_slot
          /\ Len(i_fetched) > 1 => current_slot = 0
    /\ fetch_failed =>
          /\ IsPrefix(yielded, ExpectedItems)
          /\ ended => yielded = ExpectedItems

C16_Witness ==
    /\ fetch_failed
    /\ ended
    /\ i_op = "next"
    /\ i_ret = None
    /\ i_pre.failed # {}
    /\ Len(yielded) >= 2
    /\ Len(table_heap.chain) = 2

\* C17: from its construction on the iterator holds the heap's read lock, so no writer
\* holds the write lock while the iterator is alive.
C17_ReadLockHeld ==
    it_state = "live" =>
        /\ heap_readers >= 1
        /\ ~heap_writer

----------------------------------------------------------------------------
\* Vocabulary of the LruReplacer claim: plain LRU, replayed over the calls made

\* the evictable frame of nodes with the oldest last access, None when there is none
LruVictim(nodes) ==
    LET evictable == {f \in DOMAIN nodes : nodes[f].is_evictable}
    IN  IF evictable = {} THEN None
        ELSE Some(CHOOSE f \in evictable :
                     \A g \in evictable :
                         nodes[f].last_accessed_timestamp <= nodes[g].last_accessed_timestamp)

\* plain LRU after one more call
LruStep(st, call) ==
    LET nodes == st.nodes
        f == call.arg
    IN  IF call.name = "record_access"
        THEN [nodes |-> MapPut(nodes, f,
                           [is_evictable |-> IF f \in DOMAIN nodes
                                             THEN nodes[f].is_evictable ELSE TRUE,
                            last_accessed_timestamp |-> st.clock]),
              clock |-> st.clock + 1]
        ELSE IF call.name \in {"pin", "unpin"} /\ f \in DOMAIN nodes
        THEN [st EXCEPT !.nodes = MapPut(nodes, f,
                           [nodes[f] EXCEPT !.is_evictable = (call.name = "unpin")])]
        ELSE IF call.name = "remove" /\ f \in DOMAIN nodes
        THEN [st EXCEPT !.nodes = MapDel(nodes, f)]
        ELSE IF call.name = "evict" /\ LruVictim(nodes) # None
        THEN [st EXCEPT !.nodes = MapDel(nodes, LruVictim(nodes).val)]
        ELSE st

\* plain LRU after the first n calls
RECURSIVE LruAfter(_, _)
LruAfter(calls, n) ==
    IF n = 0 THEN [nodes |-> << >>, clock |-> 0]
    ELSE LruStep(LruAfter(calls, n - 1), calls[n])

\* C18: frames registered by record_access and not pinned are evictable; evict returns
\* (and removes) the evictable frame whose latest record_access is the oldest, None when
\* there is none; evictable_count is the number of evictable frames.
C18_PlainLru ==
    \A n \in 1..Len(l_calls) :
        LET before == LruAfter(l_calls, n - 1).nodes
            call == l_calls[n]
        IN  /\ call.name = "evict" => call.ret = LruVictim(before)
            /\ call.name = "record_access" => call.ret = Unit
            /\ call.name = "evictable_count" =>
                  call.ret = Cardinality({f \in DOMAIN before : before[f].is_evictable})

----------------------------------------------------------------------------
\* Further claims about the page

\* C21: a successful insert_tuple leaves every tuple inserted before it intact:
\* get_tuple of every RecordId returned earlier gives the same metadata and payload
\* after the insert as before it, and next_page_id is unchanged.
C21_EarlierTuplesIntact ==
    (p_op.name = "insert_tuple" /\ p_ret.tag = "Ok") =>
        /\ next_page_id(page_data) = next_page_id(p_pre)
        /\ \A j \in 1..(Len(p_rids) - 1) :
              get_tuple(p_pre, p_rids[j], overflow_checks).tag = "Ok" =>
                  get_tuple(page_data, p_rids[j], overflow_checks)
                      = get_tuple(p_pre, p_rids[j], overflow_checks)

\* C22: update_tuple_metadata returns InvalidInput and changes nothing on the page when
\* rid names another page or a slot at or past tuple_cnt.
C22_UpdateValidates ==
    (/\ p_op.name = "update_tuple_metadata"
     /\ validate_record_id(p_pre, page_id, p_op.rid).tag = "Err") =>
        /\ p_ret = Err("InvalidInput")
        /\ page_data = p_pre

\* C23: a successful update_tuple_metadata on a valid RecordId increments
\* deleted_tuple_cnt when it turns a live slot deleted, decrements it when it turns a
\* deleted slot live, and leaves it as it is when the flag does not change.
C23_DeletedCountMaintained ==
    (/\ p_op.name = "update_tuple_metadata"
     /\ p_ret = Ok(Unit)
     /\ validate_record_id(p_pre, page_id, p_op.rid).tag = "Ok"
     /\ get_tuple(p_pre, p_op.rid, overflow_checks).tag = "Ok") =>
        LET was == is_deleted(get_tuple(p_pre, p_op.rid, overflow_checks).val.metadata)
            now == is_deleted(p_op.meta)
        IN  header(page_data).deleted_tuple_cnt =
                header(p_pre).deleted_tuple_cnt
                    + (IF ~was /\ now THEN 1 ELSE IF was /\ ~now THEN -1 ELSE 0)

----------------------------------------------------------------------------
\* Further claims about the LRU-K replacer

\* the last n elements of sequence s
LastN(s, n) == SubSeq(s, Len(s) - n + 1, Len(s))

Min(a, b) == IF a < b THEN a ELSE b

\* C24: record_access(f) appends the current_timestamp it started from to f's history
\* and then adds one to current_timestamp; every known node's history holds at least
\* one and at most K timestamps, strictly increasing, all below current_timestamp, and
\* they are the latest min(K, accesses since the node was created) accesses; the
\* strictly-increasing assertion never fails.
C24_HistoryInvariant ==
    /\ r_ret # Panic
    /\ \A f \in Known :
          LET h == node_store[f].history
          IN  /\ Len(h) >= 1
              /\ Len(h) <= k
              /\ \A i \in 1..(Len(h) - 1) : h[i] < h[i + 1]
              /\ \A i \in 1..Len(h) : h[i] < current_timestamp
              /\ h = LastN(accesses[f], Min(k, Len(accesses[f])))
    /\ r_op.name = "record_access" =>
          /\ current_timestamp = r_pre.current_timestamp + 1
          /\ r_op.arg \in Known
          /\ LET h == node_store[r_op.arg].history
             IN  h[Len(h)] = r_pre.current_timestamp

C24_Witness ==
    /\ r_op.name = "record_access"
    /\ k = 2
    /\ r_op.arg \in Known
    /\ Len(accesses[r_op.arg]) > k
    /\ \E g \in Known : g # r_op.arg

----------------------------------------------------------------------------
\* C25: the life cycle of a frame.  When evict() returns f, or remove(f) is
\* called on an evictable f, the frame is unknown afterwards.  It stays unknown
\* under every call that is not record_access(f): pin(f) and unpin(f) leave the
\* whole replacer as it was.  A later record_access(f) creates a fresh node that
\* is not evictable and whose history holds only the new access.
DroppedBy ==
    IF r_op.name = "evict" /\ r_ret.tag = "Some" THEN {r_ret.val}
    ELSE IF /\ r_op.name = "remove"
            /\ r_op.arg \in DOMAIN r_pre.node_store
            /\ r_pre.node_store[r_op.arg].is_evictable THEN {r_op.arg}
    ELSE {}

C25_FrameLifeCycle ==
    /\ \A f \in DroppedBy : f \notin Known /\ f \in dropped
    /\ \A f \in Frames \ DOMAIN r_pre.node_store :
          /\ ~(r_op.name = "record_access" /\ r_op.arg = f) => f \notin Known
          /\ (r_op.name \in {"pin", "unpin"} /\ r_op.arg = f) =>
                 SameReplacerState(r_pre, Now)
          /\ (r_op.name = "record_access" /\ r_op.arg = f /\ r_ret # Panic) =>
                 /\ f \in Known
                 /\ ~node_store[f].is_evictable
                 /\ node_store[f].history = <<r_pre.current_timestamp>>
                 /\ accesses[f] = <<r_pre.current_timestamp>>

\* a frame that was accessed twice, unpinned and dropped is accessed again
C25_Witness ==
    /\ r_op.name = "record_access"
    /\ r_op.arg \in r_pre.dropped
    /\ r_op.arg \notin DOMAIN r_pre.node_store
    /\ r_op.arg \in Known
    /\ r_pre.current_timestamp >= 2
    /\ k = 2

----------------------------------------------------------------------------
\* C26: pin(f) and unpin(f) on an unknown frame (never accessed, or already
\* evicted or removed) are no-ops: no node is created, the node map,
\* evictable_count and current_timestamp are unchanged, and f stays unknown.
C26_PinUnpinUnknown ==
    (r_op.name \in {"pin", "unpin"} /\ r_op.arg \notin DOMAIN r_pre.node_store) =>
        /\ r_ret = Unit
        /\ r_op.arg \notin Known
        /\ node_store = r_pre.node_store
        /\ evictable_count = r_pre.evictable_size
        /\ current_timestamp = r_pre.current_timestamp

\* unpin of a frame that was dropped earlier, while another frame is evictable
C26_Witness ==
    /\ r_op.name = "unpin"
    /\ r_op.arg \in r_pre.dropped
    /\ r_op.arg \notin DOMAIN r_pre.node_store
    /\ r_pre.evictable_size > 0

----------------------------------------------------------------------------
\* C27: record_access(f) never changes evictability.  Every frame known before
\* the call keeps its is_evictable flag, a node created by the call is not
\* evictable, evictable_count is unchanged, and no node other than f's changes;
\* only the history of f and current_timestamp change.
C27_AccessKeepsEvictability ==
    (r_op.name = "record_access" /\ r_ret # Panic) =>
        /\ evictable_count = r_pre.evictable_size
        /\ Known = DOMAIN r_pre.node_store \cup {r_op.arg}
        /\ \A g \in DOMAIN r_pre.node_store :
              /\ node_store[g].is_evictable = r_pre.node_store[g].is_evictable
              /\ g # r_op.arg => node_store[g] = r_pre.node_store[g]
        /\ r_op.arg \notin DOMAIN r_pre.node_store => ~node_store[r_op.arg].is_evictable
        /\ node_store[r_op.arg].history # IF r_op.arg \in DOMAIN r_pre.node_store
                                          THEN r_pre.node_store[r_op.arg].history
                                          ELSE <<>>
        /\ current_timestamp # r_pre.current_timestamp

\* an access of a known evictable frame, next to a known pinned one
C27_Witness ==
    /\ r_op.name = "record_access"
    /\ r_op.arg \in DOMAIN r_pre.node_store
    /\ r_pre.node_store[r_op.arg].is_evictable
    /\ \E g \in DOMAIN r_pre.node_store : ~r_pre.node_store[g].is_evictable

----------------------------------------------------------------------------
\* C28: a known frame that is not evictable is never dropped.  Under evict and
\* remove it stays known with its node (history and flag) unchanged, and evict
\* never returns it; this lasts until unpin is called on it, since every known
\* frame on which unpin was not called since its node was created is not
\* evictable.
C28_PinnedNeverDropped ==
    /\ r_op.name \in {"evict", "remove"} =>
          \A f \in DOMAIN r_pre.node_store :
              ~r_pre.node_store[f].is_evictable =>
                  /\ f \in Known
                  /\ node_store[f] = r_pre.node_store[f]
                  /\ r_ret # Some(f)
    /\ \A f \in Known \ unpinned : ~node_store[f].is_evictable

\* evict returns a frame although a pinned frame would come before it as a victim
C28_WitnessEvict ==
    /\ r_op.name = "evict"
    /\ r_ret.tag = "Some"
    /\ \E f \in DOMAIN r_pre.node_store :
          /\ ~r_pre.node_store[f].is_evictable
          /\ VictimBefore(r_pre, f, r_ret.val)

----------------------------------------------------------------------------
\* C29: evict is deterministic.  In every state the frame evict returns is the
\* same for every order in which the node map can be iterated, because any two
\* evictable frames are strictly ordered by (backward K-distance, earliest
\* history timestamp); the frame a call returned is the one every iteration
\* order of the state before the call gives.
EvictResult(s, order) ==
    LET loc == EvictLoop(EvictLocals0, s.node_store, s.current_timestamp, order)
    IN  IF loc.modded THEN Some(loc.max_frame_id) ELSE None

C29_EvictDeterministic ==
    /\ \A o1, o2 \in IterOrders(Known) : EvictResult(Now, o1) = EvictResult(Now, o2)
    /\ \A f, g \in EvictableIn(Now) :
          f # g => (VictimBefore(Now, f, g) /\ ~VictimBefore(Now, g, f))
                   \/ (VictimBefore(Now, g, f) /\ ~VictimBefore(Now, f, g))
    /\ r_op.name = "evict" =>
          \A o \in IterOrders(DOMAIN r_pre.node_store) : r_ret = EvictResult(r_pre, o)

\* evict has returned a frame out of three known frames, two of them evictable
\* and tied at an infinite backward K-distance
C29_Witness ==
    /\ r_op.name = "evict"
    /\ r_ret.tag = "Some"
    /\ Cardinality(DOMAIN r_pre.node_store) = 3
    /\ \E f, g \in EvictableIn(r_pre) :
          f # g /\ ~HasKAccesses(r_pre, f) /\ ~HasKAccesses(r_pre, g)

----------------------------------------------------------------------------
\* C30: termination of the scan.  The page chain of the heap is finite and
\* acyclic and ends in INVALID_PAGE_ID.  With every fetch succeeding, each next
\* call terminates - it asks for no page twice, also when it skips pages that
\* are empty or hold only deleted tuples - and the calls of a consumer that
\* keeps calling next reach end-of-iteration.  The cursor (page in chain order,
\* current_slot) never moves backward, and moves forward with every item.

\* the place of a page in the chain; INVALID_PAGE_ID comes after the last page
ChainIndex(pid) ==
    IF \E j \in 1..Len(table_heap.chain) : table_heap.chain[j] = pid
    THEN CHOOSE j \in 1..Len(table_heap.chain) : table_heap.chain[j] = pid
    ELSE Len(table_heap.chain) + 1

CursorBefore(p1, s1, p2, s2) ==
    \/ ChainIndex(p1) < ChainIndex(p2)
    \/ ChainIndex(p1) = ChainIndex(p2) /\ s1 < s2

CursorNeverBackward ==
    i_op = "next" =>
        /\ ~CursorBefore(current_page_id, current_slot,
                         i_pre.current_page_id, i_pre.current_slot)
        /\ ReturnedItem => CursorBefore(i_pre.current_page_id, i_pre.current_slot,
                                        current_page_id, current_slot)

EachCallTerminates ==
    (i_op = "next" /\ ~fetch_failed) =>
        /\ i_ret # Panic
        /\ Len(i_fetched) <= Len(table_heap.chain) + 1
        /\ \A a, b \in 1..Len(i_fetched) : a # b => i_fetched[a] # i_fetched[b]

C30_Termination ==
    /\ [](CursorNeverBackward /\ EachCallTerminates)
    /\ (it_state = "live" /\ ~fetch_failed) ~> (ended \/ fetch_failed)

\* the scan has ended after one call skipped a page holding only deleted tuples
\* and, in the same call, went on to an item of the next page
C30_Witness ==
    /\ ended
    /\ ~fetch_failed
    /\ Len(table_heap.chain) = 2
    /\ Len(table_heap.tuples[table_heap.chain[1]]) > 0
    /\ \A i \in 1..Len(table_heap.tuples[table_heap.chain[1]]) :
          is_deleted(table_heap.tuples[table_heap.chain[1]][i])
    /\ Len(yielded) >= 1

====
